---- MODULE Spec2Model ----
(***************************************************************************)
(* Model of create_documents.py: the RateLimiter and the resumable batch   *)
(* runner process_papers, with its files (the temporary <id>.pdf, the      *)
(* output <id>.txt, the checkpoint processed_papers.log), the outcomes of  *)
(* each step of a record (fetch, extraction, output write, checkpoint      *)
(* append), external termination of the process at any step and the runs   *)
(* that follow it; one call of download_pdf, step by step.                 *)
(*                                                                         *)
(* Identifiers are numbers 1, 2, ... (standing for strings that the checkpoint's *)
(* line.strip() reads back unchanged); a record without an 'id' field is   *)
(* NoId.  Time is counted in ticks; a call of wait_if_needed takes no time *)
(* beyond its sleep.                                                       *)
(***************************************************************************)
EXTENDS Integers, Sequences, FiniteSets, TLC

\* ---------------------------------------------------------------- bounds
MaxPapers == 2      \* longest input list of the repeated runs
MaxRuns == 2        \* runs of process_papers on one output directory
MaxFresh == 4       \* longest input list of a single run on an empty directory
MaxBurst == 2       \* largest burst size of a RateLimiter under test
MaxSleep == 2       \* largest window (ticks) of a RateLimiter under test
MaxCalls == 5       \* calls of wait_if_needed in one limiter history
MaxClock == 4       \* last tick at which the caller may still idle
MaxChunks == 2      \* chunks of a response body, or of a file left behind
MaxStr == 2         \* characters of a metadata string or an extracted text
MaxWords == 3       \* words of a page without extractable text
MaxLines == 2       \* lines of the input file of filter_papers

\* ------------------------------------------------------ program constants
RunnerBurst == 4    \* RateLimiter(burst_size=4, ...)
RunnerSleep == 1    \* RateLimiter(..., sleep_time=1)
NoId == 0           \* a record whose paper['id'] raises KeyError
Unbound == -1       \* a local variable that was never assigned

Ids == 1..(IF MaxFresh > MaxPapers THEN MaxFresh ELSE MaxPapers)
\* the input lists of the repeated runs: any records, identifiers may repeat
Records == (1..MaxPapers) \cup {NoId}
Inputs == UNION {[1..n -> Records] : n \in 0..MaxPapers}
\* the input lists of a single run: records with unique identifiers
FreshInputs == {[i \in 1..n |-> i] : n \in 0..MaxFresh}

VARIABLES
    \* the RateLimiter object and the clock
    burst_size, sleep_time, request_times, now,
    calls,          \* history: <<start, end>> of every wait_if_needed call
    \* the files of the output directory
    pdf,            \* the ids whose <id>.pdf exists
    txt,            \* <id>.txt: "none", "partial" or "full"
    logf,           \* the lines of processed_papers.log
    \* the process running process_papers
    papers, resume, pc, idx, processed, failed, processed_ids,
    arxiv_id, pdf_path,
    rate,           \* the completion rate printed, in 1/100 percent
    exc,            \* the exception process_papers raised
    \* history of the runs
    runs,           \* runs started so far
    prev,           \* how the preceding run ended, and its failed count
    allResume,      \* every run so far was started with resume enabled
    log0,           \* the length of the checkpoint when this run started
    nwrites,        \* output files opened for writing in this run
    outcomes        \* this run's outcome of each record handled

VARIABLES
    \* one call of download_pdf
    dl_pc,          \* where the call is
    dl_body,        \* the chunks of the response body
    dl_dest,        \* the chunks in the file at output_path, or NoFile
    dl_ret,         \* what the call returned
    dl_exc          \* the exception that left the call

VARIABLES
    \* one record's output document, written and read back
    doc_pc,         \* "start", "failed", "written" or "read"
    doc_paper,      \* the record: its fields id and title
    doc_text,       \* paper_text
    doc_file,       \* the characters of <id>.txt
    doc_split       \* what a reader splitting at the marker texts recovers

VARIABLES
    \* the fallback of extract_text_from_pdf on one page
    lay_pc,         \* "start", "loop" or "returned"
    words,          \* what page.extract_words returns
    lay_i,          \* place of the loop in the sorted words
    current_line,   \* the texts of the line being built
    current_y,      \* its reference doctop, NoY for None
    text_content,   \* the pieces collected
    lay_ret         \* the text returned

VARIABLES
    \* filter_papers
    fp_pc,          \* "start", "loop" or "returned"
    in_f,           \* the lines of input_file
    start_date,     \* a day, or NoDate for None
    end_date,       \* a day, or NoDate for None
    fp_i,           \* the line the loop is at
    out_f           \* the records written to output_file

dlVars == <<dl_pc, dl_body, dl_dest, dl_ret, dl_exc>>
docVars == <<doc_pc, doc_paper, doc_text, doc_file, doc_split>>
layVars == <<lay_pc, words, lay_i, current_line, current_y, text_content,
            lay_ret>>
fpVars == <<fp_pc, in_f, start_date, end_date, fp_i, out_f>>
auxVars == <<dlVars, docVars, layVars, fpVars>>

limiterVars == <<burst_size, sleep_time, request_times, now, calls>>
fileVars == <<pdf, txt, logf>>
procVars == <<papers, resume, pc, idx, processed, failed, processed_ids,
              arxiv_id, pdf_path, rate, exc>>
runHist == <<runs, prev, allResume, log0>>
histVars == <<runHist, nwrites, outcomes>>
vars == <<limiterVars, fileVars, procVars, histVars, auxVars>>

Range(s) == {s[i] : i \in 1..Len(s)}
IsPrefix(s, t) == Len(s) <= Len(t) /\ \A i \in 1..Len(s) : s[i] = t[i]
\* every record has an identifier and no two records share one
UniqueIds(s) ==
    /\ \A i \in 1..Len(s) : s[i] # NoId
    /\ \A i, j \in 1..Len(s) : s[i] = s[j] => i = j
NoRate == -1
NoFile == -1

\* no call of download_pdf is under way
DlIdle ==
    /\ dl_pc = "idle"
    /\ dl_body = 0
    /\ dl_dest = NoFile
    /\ dl_ret = "none"
    /\ dl_exc = "none"

\* what a reader holds before it has read, and when it cannot read
NotRead == [ok |-> FALSE, paper |-> [id |-> <<>>, title |-> <<>>],
            body |-> <<>>]

\* no output document is being written
DocIdle ==
    /\ doc_pc = "idle"
    /\ doc_paper = [id |-> <<>>, title |-> <<>>]
    /\ doc_text = <<>>
    /\ doc_file = <<>>
    /\ doc_split = NotRead

NoY == -1           \* current_y = None

\* no page is being reconstructed
LayIdle ==
    /\ lay_pc = "idle"
    /\ words = <<>>
    /\ lay_i = 0
    /\ current_line = <<>>
    /\ current_y = NoY
    /\ text_content = <<>>
    /\ lay_ret = <<>>

NoDate == -1        \* start_date=None, end_date=None

\* filter_papers is not called
FpIdle ==
    /\ fp_pc = "idle"
    /\ in_f = <<>>
    /\ start_date = NoDate
    /\ end_date = NoDate
    /\ fp_i = 0
    /\ out_f = <<>>

AuxIdle == DlIdle /\ DocIdle /\ LayIdle /\ FpIdle

\* ------------------------------------------------------------ RateLimiter

\* (a limiter whose fullness test len > burst_size never holds)
SleepNever(rt, t, B, W) ==
    IF Len(rt) > B /\ t - rt[1] < W THEN W - (t - rt[1]) ELSE 0

\* wait_if_needed: the argument of time.sleep (0 when it does not sleep)
SleepNeeded(rt, t, B, W) ==
    IF Len(rt) = B /\ t - rt[1] < W THEN W - (t - rt[1]) ELSE 0

\* wait_if_needed: the deque after popleft (when full) and append(now)
Recorded(rt, t, B) ==
    Append(IF Len(rt) = B THEN Tail(rt) ELSE rt, t)

\* one call of wait_if_needed made at the current time
WaitIfNeeded ==
    LET s == SleepNeeded(request_times, now, burst_size, sleep_time) IN
    /\ request_times' = Recorded(request_times, now, burst_size)
    /\ now' = now + s
    /\ calls' = Append(calls, <<now, now + s>>)
    /\ UNCHANGED <<burst_size, sleep_time>>

\* the caller does something else for one tick
Tick ==
    /\ now < MaxClock
    /\ now' = now + 1
    /\ UNCHANGED <<burst_size, sleep_time, request_times, calls>>
    /\ UNCHANGED <<fileVars, procVars, histVars>>
    /\ UNCHANGED auxVars

Acquire ==
    /\ Len(calls) < MaxCalls
    /\ WaitIfNeeded
    /\ UNCHANGED <<fileVars, procVars, histVars>>
    /\ UNCHANGED auxVars

\* ------------------------------------------------------------ the process

InitFiles ==
    /\ pdf = {}
    /\ txt = [i \in Ids |-> "none"]
    /\ logf = <<>>

InitProc ==
    /\ resume = TRUE
    /\ pc = "idle"
    /\ idx = 1
    /\ processed = 0
    /\ failed = 0
    /\ processed_ids = {}
    /\ arxiv_id = Unbound
    /\ pdf_path = Unbound
    /\ rate = NoRate
    /\ exc = "none"
    /\ runs = 0
    /\ prev = [how |-> "none", failed |-> 0]
    /\ allResume = TRUE
    /\ log0 = 0
    /\ nwrites = 0
    /\ outcomes = <<>>

InitRL ==
    /\ burst_size \in 1..MaxBurst
    /\ sleep_time \in 1..MaxSleep
    /\ request_times = <<>>
    /\ now = 0
    /\ calls = <<>>
    /\ papers = <<>>
    /\ InitFiles
    /\ InitProc
    /\ AuxIdle

NextRL == Tick \/ Acquire

\* A RateLimiter of any burst size and window, called at any times.
SpecRL == InitRL /\ [][NextRL]_vars

\* --------------------------------------------------------- process_papers

Running == {"loop", "download", "downloading", "extract", "write", "writing",
            "remove", "log", "count"}

\* (a run that never reads the checkpoint file)
LoadNothing(r, log) == {}

\* processed_ids as loaded from the checkpoint file at the start of a run
LoadCheckpoint(r, log) == IF r THEN Range(log) ELSE {}

\* (an append that never reaches the checkpoint file)
AppendNothing(log, id) == log

\* log.write(f"{arxiv_id}\n"); log.flush()
AppendLog(log, id) == Append(log, id)

\* the completion rate as printed with :.2f, in 1/100 percent
RatePct(p, f) == (2 * 10000 * p + (p + f)) \div (2 * (p + f))

\* a record has been resolved with outcome o: on to the next one
NextPaper(o) ==
    /\ idx' = idx + 1
    /\ pc' = "loop"
    /\ outcomes' = Append(outcomes, o)

\* process_papers is called on the output directory as it stands
StartRun(r) ==
    /\ pc \in {"idle", "done", "raised"}
    /\ runs < MaxRuns
    /\ runs' = runs + 1
    /\ prev' = [how |-> IF pc # "idle" THEN pc
                        ELSE IF runs = 0 THEN "none" ELSE "terminated",
                failed |-> failed]
    /\ allResume' = (allResume /\ r)
    /\ log0' = Len(logf)
    /\ resume' = r
    /\ burst_size' = RunnerBurst
    /\ sleep_time' = RunnerSleep
    /\ request_times' = <<>>
    /\ calls' = <<>>
    /\ processed' = 0
    /\ failed' = 0
    /\ processed_ids' = LoadCheckpoint(r, logf)
    /\ idx' = 1
    /\ pc' = "loop"
    /\ arxiv_id' = Unbound
    /\ pdf_path' = Unbound
    /\ rate' = NoRate
    /\ exc' = "none"
    /\ nwrites' = 0
    /\ outcomes' = <<>>
    /\ UNCHANGED <<now, papers, fileVars>>
    /\ UNCHANGED auxVars

\* the except clause of the loop body, entered with arxiv_id = a and
\* pdf_path = p: the print reads arxiv_id, the cleanup reads pdf_path
Handler(a, p, o) ==
    IF a = Unbound
    THEN /\ pc' = "raised"
         /\ exc' = "UnboundLocalError"
         /\ UNCHANGED <<failed, pdf, idx, outcomes>>
    ELSE /\ failed' = failed + 1
         /\ IF p = Unbound
            THEN /\ pc' = "raised"
                 /\ exc' = "UnboundLocalError"
                 /\ UNCHANGED <<pdf, idx, outcomes>>
            ELSE /\ pdf' = pdf \ {p}
                 /\ NextPaper(o)
                 /\ exc' = exc

\* paper['id'] raises: the record has no identifier
ReadRaises ==
    /\ pc = "loop"
    /\ idx <= Len(papers)
    /\ papers[idx] = NoId
    /\ Handler(arxiv_id, pdf_path, "read_raised")
    /\ UNCHANGED <<limiterVars, txt, logf, papers, resume, processed,
                   processed_ids, arxiv_id, pdf_path, rate, runHist, nwrites>>
    /\ UNCHANGED auxVars

\* (a skip that takes a limiter slot before it looks at processed_ids)
SkipWaits ==
    /\ pc = "loop"
    /\ idx <= Len(papers)
    /\ papers[idx] # NoId
    /\ papers[idx] \in processed_ids
    /\ WaitIfNeeded
    /\ arxiv_id' = papers[idx]
    /\ processed' = processed + 1
    /\ NextPaper("skipped")
    /\ UNCHANGED <<fileVars, papers, resume, failed, processed_ids, pdf_path,
                   rate, exc, runHist, nwrites>>
    /\ UNCHANGED auxVars

\* the identifier is in processed_ids: counted as processed, nothing else
Skip ==
    /\ pc = "loop"
    /\ idx <= Len(papers)
    /\ papers[idx] # NoId
    /\ papers[idx] \in processed_ids
    /\ arxiv_id' = papers[idx]
    /\ processed' = processed + 1
    /\ NextPaper("skipped")
    /\ UNCHANGED <<limiterVars, fileVars, papers, resume, failed,
                   processed_ids, pdf_path, rate, exc, runHist, nwrites>>
    /\ UNCHANGED auxVars

Begin ==
    /\ pc = "loop"
    /\ idx <= Len(papers)
    /\ papers[idx] # NoId
    /\ papers[idx] \notin processed_ids
    /\ arxiv_id' = papers[idx]
    /\ pdf_path' = papers[idx]
    /\ pc' = "download"
    /\ UNCHANGED <<limiterVars, fileVars, papers, resume, idx, processed,
                   failed, processed_ids, rate, exc, histVars>>
    /\ UNCHANGED auxVars

\* download_pdf: the limiter's wait, then the request or its status check
\* raises before the destination file is opened
DownloadRefused ==
    /\ pc = "download"
    /\ WaitIfNeeded
    /\ failed' = failed + 1
    /\ NextPaper("fetch_failed")
    /\ UNCHANGED <<fileVars, papers, resume, processed, processed_ids,
                   arxiv_id, pdf_path, rate, exc, runHist, nwrites>>
    /\ UNCHANGED auxVars

\* download_pdf: the limiter's wait, the response arrives, the file is opened
DownloadOpens ==
    /\ pc = "download"
    /\ WaitIfNeeded
    /\ pdf' = pdf \cup {pdf_path}
    /\ pc' = "downloading"
    /\ UNCHANGED <<txt, logf, papers, resume, idx, processed, failed,
                   processed_ids, arxiv_id, pdf_path, rate, exc, histVars>>
    /\ UNCHANGED auxVars

\* download_pdf: the stream breaks, the partly written file stays
DownloadBreaks ==
    /\ pc = "downloading"
    /\ failed' = failed + 1
    /\ NextPaper("fetch_failed")
    /\ UNCHANGED <<limiterVars, fileVars, papers, resume, processed,
                   processed_ids, arxiv_id, pdf_path, rate, exc, runHist, nwrites>>
    /\ UNCHANGED auxVars

DownloadCompletes ==
    /\ pc = "downloading"
    /\ pc' = "extract"
    /\ UNCHANGED <<limiterVars, fileVars, papers, resume, idx, processed,
                   failed, processed_ids, arxiv_id, pdf_path, rate, exc,
                   histVars>>
    /\ UNCHANGED auxVars

\* extract_text_from_pdf returns None or an empty text
ExtractFails ==
    /\ pc = "extract"
    /\ failed' = failed + 1
    /\ pdf' = pdf \ {pdf_path}
    /\ NextPaper("extract_failed")
    /\ UNCHANGED <<limiterVars, txt, logf, papers, resume, processed,
                   processed_ids, arxiv_id, pdf_path, rate, exc, runHist, nwrites>>
    /\ UNCHANGED auxVars

ExtractOk ==
    /\ pc = "extract"
    /\ pc' = "write"
    /\ UNCHANGED <<limiterVars, fileVars, papers, resume, idx, processed,
                   failed, processed_ids, arxiv_id, pdf_path, rate, exc,
                   histVars>>
    /\ UNCHANGED auxVars

\* open(output_path, 'w') raises: the output file is untouched
OpenOutputRaises ==
    /\ pc = "write"
    /\ Handler(arxiv_id, pdf_path, "write_raised")
    /\ UNCHANGED <<limiterVars, txt, logf, papers, resume, processed,
                   processed_ids, arxiv_id, pdf_path, rate, runHist, nwrites>>
    /\ UNCHANGED auxVars

\* (the checkpoint line written when the output file is opened)
OpenOutputLogsFirst ==
    /\ pc = "write"
    /\ txt' = [txt EXCEPT ![arxiv_id] = "partial"]
    /\ logf' = Append(logf, arxiv_id)
    /\ nwrites' = nwrites + 1
    /\ pc' = "writing"
    /\ UNCHANGED <<limiterVars, pdf, papers, resume, idx, processed, failed,
                   processed_ids, arxiv_id, pdf_path, rate, exc, runHist,
                   outcomes>>
    /\ UNCHANGED auxVars

\* open(output_path, 'w') creates or truncates the output file
OpenOutput ==
    /\ pc = "write"
    /\ txt' = [txt EXCEPT ![arxiv_id] = "partial"]
    /\ nwrites' = nwrites + 1
    /\ pc' = "writing"
    /\ UNCHANGED <<limiterVars, pdf, logf, papers, resume, idx, processed,
                   failed, processed_ids, arxiv_id, pdf_path, rate, exc, runHist, outcomes>>
    /\ UNCHANGED auxVars

\* a write to the output file raises: what was written stays
WriteRaises ==
    /\ pc = "writing"
    /\ Handler(arxiv_id, pdf_path, "write_raised")
    /\ UNCHANGED <<limiterVars, txt, logf, papers, resume, processed,
                   processed_ids, arxiv_id, pdf_path, rate, runHist, nwrites>>
    /\ UNCHANGED auxVars

\* the with block ends: the output file is complete and closed
WriteCompletes ==
    /\ pc = "writing"
    /\ txt' = [txt EXCEPT ![arxiv_id] = "full"]
    /\ pc' = "remove"
    /\ UNCHANGED <<limiterVars, pdf, logf, papers, resume, idx, processed,
                   failed, processed_ids, arxiv_id, pdf_path, rate, exc,
                   histVars>>
    /\ UNCHANGED auxVars

\* os.remove(pdf_path)
RemoveArtifact ==
    /\ pc = "remove"
    /\ pdf' = pdf \ {pdf_path}
    /\ pc' = "log"
    /\ UNCHANGED <<limiterVars, txt, logf, papers, resume, idx, processed,
                   failed, processed_ids, arxiv_id, pdf_path, rate, exc,
                   histVars>>
    /\ UNCHANGED auxVars

\* log.write or log.flush raises: nothing reaches the checkpoint file
LogRaises ==
    /\ pc = "log"
    /\ Handler(arxiv_id, pdf_path, "log_raised")
    /\ UNCHANGED <<limiterVars, txt, logf, papers, resume, processed,
                   processed_ids, arxiv_id, pdf_path, rate, runHist, nwrites>>
    /\ UNCHANGED auxVars

LogAppend ==
    /\ pc = "log"
    /\ logf' = AppendLog(logf, arxiv_id)
    /\ pc' = "count"
    /\ UNCHANGED <<limiterVars, pdf, txt, papers, resume, idx, processed,
                   failed, processed_ids, arxiv_id, pdf_path, rate, exc,
                   histVars>>
    /\ UNCHANGED auxVars

Count ==
    /\ pc = "count"
    /\ processed' = processed + 1
    /\ NextPaper("ok")
    /\ UNCHANGED <<limiterVars, fileVars, papers, resume, failed,
                   processed_ids, arxiv_id, pdf_path, rate, exc, runHist, nwrites>>
    /\ UNCHANGED auxVars

\* the loop is over: the summary and its completion rate
Summary ==
    /\ pc = "loop"
    /\ idx > Len(papers)
    /\ IF processed + failed = 0
       THEN /\ pc' = "raised"
            /\ exc' = "ZeroDivisionError"
            /\ rate' = rate
       ELSE /\ pc' = "done"
            /\ rate' = RatePct(processed, failed)
            /\ exc' = exc
    /\ UNCHANGED <<limiterVars, fileVars, papers, resume, idx, processed,
                   failed, processed_ids, arxiv_id, pdf_path, histVars>>
    /\ UNCHANGED auxVars

\* the process is terminated from outside: its memory is gone, the files stay
Terminate ==
    /\ pc \in Running
    /\ pc' = "idle"
    /\ idx' = 1
    /\ processed' = 0
    /\ failed' = 0
    /\ processed_ids' = {}
    /\ arxiv_id' = Unbound
    /\ pdf_path' = Unbound
    /\ request_times' = <<>>
    /\ calls' = <<>>
    /\ nwrites' = 0
    /\ outcomes' = <<>>
    /\ UNCHANGED <<burst_size, sleep_time, now, fileVars, papers, resume,
                   rate, exc, runHist>>
    /\ UNCHANGED auxVars

InitRunner ==
    /\ burst_size = RunnerBurst
    /\ sleep_time = RunnerSleep
    /\ request_times = <<>>
    /\ now = 0
    /\ calls = <<>>
    /\ InitFiles
    /\ InitProc
    /\ AuxIdle

Init == papers \in Inputs /\ InitRunner

Next ==
    \/ \E r \in BOOLEAN : StartRun(r)
    \/ ReadRaises
    \/ Skip
    \/ Begin
    \/ DownloadRefused
    \/ DownloadOpens
    \/ DownloadBreaks
    \/ DownloadCompletes
    \/ ExtractFails
    \/ ExtractOk
    \/ OpenOutputRaises
    \/ OpenOutput
    \/ WriteRaises
    \/ WriteCompletes
    \/ RemoveArtifact
    \/ LogRaises
    \/ LogAppend
    \/ Count
    \/ Summary
    \/ Terminate

\* Runs of process_papers on one output directory, one after the other.
Spec == Init /\ [][Next]_vars

\* ------------------------------------------- one run, empty directory

InitFresh == papers \in FreshInputs /\ InitRunner

\* the only run: process_papers is called once and is not terminated
StartFresh(r) == runs = 0 /\ StartRun(r)

\* With unique identifiers and an empty checkpoint no record is skipped and
\* every record has an identifier: Skip and ReadRaises are never enabled.
NextFresh ==
    \/ \E r \in BOOLEAN : StartFresh(r)
    \/ Begin
    \/ DownloadRefused
    \/ DownloadOpens
    \/ DownloadBreaks
    \/ DownloadCompletes
    \/ ExtractFails
    \/ ExtractOk
    \/ OpenOutputRaises
    \/ OpenOutput
    \/ WriteRaises
    \/ WriteCompletes
    \/ RemoveArtifact
    \/ LogRaises
    \/ LogAppend
    \/ Count
    \/ Summary

\* One run of process_papers, from an empty output directory to its end.
SpecFresh == InitFresh /\ [][NextFresh]_vars

\* ------------------------------------------------------------ download_pdf

\* the exceptions the steps of download_pdf raise, all of them subclasses of
\* Exception
DlExceptions == {"IndexError", "ConnectionError", "HTTPError", "OSError",
                 "ChunkedEncodingError"}

\* (a clause except requests.RequestException)
CatchesRequestErrors(e) ==
    e \in {"ConnectionError", "HTTPError", "ChunkedEncodingError"}

\* except Exception as e
Catches(e) == e \in DlExceptions

\* exception e is raised inside the try block
DlExcept(e) ==
    /\ dl_exc' = e
    /\ IF Catches(e)
       THEN dl_ret' = "False" /\ dl_pc' = "returned"
       ELSE dl_ret' = dl_ret /\ dl_pc' = "raised"

frameDl == <<fileVars, procVars, histVars, docVars, layVars, fpVars>>

\* download_pdf is called with a path that holds no file or an older one
DlCall ==
    /\ dl_pc \in {"idle", "returned"}
    /\ Len(calls) < MaxCalls
    /\ dl_pc' = "wait"
    /\ dl_dest' \in {NoFile} \cup 0..MaxChunks
    /\ dl_body' = 0
    /\ dl_ret' = "none"
    /\ dl_exc' = "none"
    /\ UNCHANGED <<limiterVars, frameDl>>

\* rate_limiter.wait_if_needed() on a limiter of burst size 0: its deque is
\* empty and full at once, request_times[0] raises
DlWaitRaises ==
    /\ dl_pc = "wait"
    /\ burst_size = 0
    /\ DlExcept("IndexError")
    /\ UNCHANGED <<dl_body, dl_dest, limiterVars, frameDl>>

DlWaitReturns ==
    /\ dl_pc = "wait"
    /\ burst_size >= 1
    /\ WaitIfNeeded
    /\ dl_pc' = "get"
    /\ UNCHANGED <<dl_body, dl_dest, dl_ret, dl_exc, frameDl>>

\* requests.get raises: no connection, timeout
DlGetRaises ==
    /\ dl_pc = "get"
    /\ DlExcept("ConnectionError")
    /\ UNCHANGED <<dl_body, dl_dest, limiterVars, frameDl>>

\* requests.get returns a response whose body has n chunks
DlGetReturns ==
    /\ dl_pc = "get"
    /\ dl_body' \in 0..MaxChunks
    /\ dl_pc' = "status"
    /\ UNCHANGED <<dl_dest, dl_ret, dl_exc, limiterVars, frameDl>>

\* response.raise_for_status() on a 4xx or 5xx response
DlStatusRaises ==
    /\ dl_pc = "status"
    /\ DlExcept("HTTPError")
    /\ UNCHANGED <<dl_body, dl_dest, limiterVars, frameDl>>

DlStatusOk ==
    /\ dl_pc = "status"
    /\ dl_pc' = "open"
    /\ UNCHANGED <<dl_body, dl_dest, dl_ret, dl_exc, limiterVars, frameDl>>

\* open(output_path, 'wb') raises
DlOpenRaises ==
    /\ dl_pc = "open"
    /\ DlExcept("OSError")
    /\ UNCHANGED <<dl_body, dl_dest, limiterVars, frameDl>>

\* open(output_path, 'wb') creates the file or truncates the older one
DlOpens ==
    /\ dl_pc = "open"
    /\ dl_dest' = 0
    /\ dl_pc' = "chunk"
    /\ UNCHANGED <<dl_body, dl_ret, dl_exc, limiterVars, frameDl>>

\* the next chunk arrives and is written
DlChunkWritten ==
    /\ dl_pc = "chunk"
    /\ dl_dest < dl_body
    /\ dl_dest' = dl_dest + 1
    /\ UNCHANGED <<dl_pc, dl_body, dl_ret, dl_exc, limiterVars, frameDl>>

\* iter_content raises before the next chunk arrives
DlStreamRaises ==
    /\ dl_pc = "chunk"
    /\ dl_dest < dl_body
    /\ DlExcept("ChunkedEncodingError")
    /\ UNCHANGED <<dl_body, dl_dest, limiterVars, frameDl>>

\* f.write(chunk) raises
DlWriteRaises ==
    /\ dl_pc = "chunk"
    /\ dl_dest < dl_body
    /\ DlExcept("OSError")
    /\ UNCHANGED <<dl_body, dl_dest, limiterVars, frameDl>>

\* the body is exhausted: the file is closed, return True
DlReturnsTrue ==
    /\ dl_pc = "chunk"
    /\ dl_dest = dl_body
    /\ dl_ret' = "True"
    /\ dl_pc' = "returned"
    /\ UNCHANGED <<dl_body, dl_dest, dl_exc, limiterVars, frameDl>>

InitDL ==
    /\ burst_size \in 0..MaxBurst
    /\ sleep_time \in 1..MaxSleep
    /\ request_times = <<>>
    /\ now = 0
    /\ calls = <<>>
    /\ papers = <<>>
    /\ InitFiles
    /\ InitProc
    /\ DlIdle
    /\ DocIdle
    /\ LayIdle
    /\ FpIdle

NextDL ==
    \/ DlCall
    \/ DlWaitRaises
    \/ DlWaitReturns
    \/ DlGetRaises
    \/ DlGetReturns
    \/ DlStatusRaises
    \/ DlStatusOk
    \/ DlOpenRaises
    \/ DlOpens
    \/ DlChunkWritten
    \/ DlStreamRaises
    \/ DlWriteRaises
    \/ DlReturnsTrue

\* Calls of download_pdf, one after the other, on one RateLimiter.
SpecDL == InitDL /\ [][NextDL]_vars

\* ------------------------------------------------------ the output document

\* The characters of a string: "nl" a line break, "q" a double quote, "bs" a
\* backslash, "n" the letter n (any ordinary character), "M" and "F" the
\* texts ---METADATA--- and ---FULLTEXT---.  The document also holds the
\* characters of the JSON layout: "{", "}", ",", and "k_id", "k_title" for
\* an indented key with its colon.
Chars == {"n", "nl", "q", "bs", "M", "F"}
Strings == UNION {[1..n -> Chars] : n \in 0..MaxStr}

RECURSIVE Escape(_)
\* json.dump of the characters of a string (ensure_ascii=False)
Escape(v) ==
    IF v = <<>> THEN <<>>
    ELSE (CASE Head(v) = "nl" -> <<"bs", "n">>
            [] Head(v) = "q" -> <<"bs", "q">>
            [] Head(v) = "bs" -> <<"bs", "bs">>
            [] OTHER -> <<Head(v)>>) \o Escape(Tail(v))

\* json.dump of a string
Quote(v) == <<"q">> \o Escape(v) \o <<"q">>

\* json.dump(paper, out_f, ensure_ascii=False, indent=2)
Dump(paper) ==
    <<"{", "nl", "k_id">> \o Quote(paper.id) \o <<",", "nl", "k_title">>
        \o Quote(paper.title) \o <<"nl", "}">>

\* what lines 166-169 write to the output file
Document(paper, text) ==
    <<"M", "nl">> \o Dump(paper) \o <<"nl", "F", "nl">> \o text

\* the first place of character c in s from place i on, 0 if there is none
IndexFrom(s, c, i) ==
    LET at == {k \in i..Len(s) : s[k] = c} IN
    IF at = {} THEN 0 ELSE CHOOSE k \in at : \A m \in at : k <= m

RECURSIVE Scan(_, _, _)
\* json.loads of a string whose opening quote is before place i: its value
\* acc so far, and the place after its closing quote
Scan(s, i, acc) ==
    IF i > Len(s) \/ s[i] = "nl" THEN [ok |-> FALSE, val |-> acc, next |-> i]
    ELSE IF s[i] = "q" THEN [ok |-> TRUE, val |-> acc, next |-> i + 1]
    ELSE IF s[i] = "bs"
    THEN IF i + 1 > Len(s) \/ s[i + 1] \notin {"n", "q", "bs"}
         THEN [ok |-> FALSE, val |-> acc, next |-> i]
         ELSE Scan(s, i + 2,
                   Append(acc, IF s[i + 1] = "n" THEN "nl" ELSE s[i + 1]))
    ELSE Scan(s, i + 1, Append(acc, s[i]))

\* s holds the characters t from place i on
HasAt(s, i, t) ==
    /\ i + Len(t) - 1 <= Len(s)
    /\ \A k \in 1..Len(t) : s[i + k - 1] = t[k]

\* json.loads of the metadata section
Parse(m) ==
    IF ~HasAt(m, 1, <<"{", "nl", "k_id", "q">>) THEN NotRead
    ELSE LET a == Scan(m, 5, <<>>) IN
         IF ~a.ok \/ ~HasAt(m, a.next, <<",", "nl", "k_title", "q">>)
         THEN NotRead
         ELSE LET b == Scan(m, a.next + 4, <<>>) IN
              IF ~b.ok \/ SubSeq(m, b.next, Len(m)) # <<"nl", "}">>
              THEN NotRead
              ELSE [ok |-> TRUE, paper |-> [id |-> a.val, title |-> b.val],
                    body |-> <<>>]

\* s without the line break it starts with
AfterBreak(s) == IF s # <<>> /\ Head(s) = "nl" THEN Tail(s) ELSE s

\* s without the line break it starts with and the one it ends with
Trimmed(s) ==
    LET a == IF Len(s) > 0 /\ s[1] = "nl" THEN 2 ELSE 1
        b == IF Len(s) >= a /\ s[Len(s)] = "nl" THEN Len(s) - 1 ELSE Len(s)
    IN  SubSeq(s, a, b)

\* A reader that splits at the marker texts wherever they occur: the metadata
\* is what stands between the first ---METADATA--- and the first
\* ---FULLTEXT--- after it, the text is what follows.
ReadByMarkers(d) ==
    LET i == IndexFrom(d, "M", 1)
        j == IF i = 0 THEN 0 ELSE IndexFrom(d, "F", i + 1)
    IN  IF j = 0 THEN NotRead
        ELSE [Parse(Trimmed(SubSeq(d, i + 1, j - 1)))
                 EXCEPT !.body = AfterBreak(SubSeq(d, j + 1, Len(d)))]

frameDoc ==
    <<limiterVars, fileVars, procVars, histVars, dlVars, layVars, fpVars>>

\* if not paper_text: the record fails, no output document is written
DocRejected ==
    /\ doc_pc = "start"
    /\ doc_text = <<>>
    /\ doc_pc' = "failed"
    /\ UNCHANGED <<doc_paper, doc_text, doc_file, doc_split>>
    /\ UNCHANGED frameDoc

\* lines 165-169 write the output document; the record goes on to be
\* checkpointed
DocWritten ==
    /\ doc_pc = "start"
    /\ doc_text # <<>>
    /\ doc_file' = Document(doc_paper, doc_text)
    /\ doc_pc' = "written"
    /\ UNCHANGED <<doc_paper, doc_text, doc_split>>
    /\ UNCHANGED frameDoc

\* the output document is read back
DocRead ==
    /\ doc_pc = "written"
    /\ doc_split' = ReadByMarkers(doc_file)
    /\ doc_pc' = "read"
    /\ UNCHANGED <<doc_paper, doc_text, doc_file>>
    /\ UNCHANGED frameDoc

\* the identifiers the records carry: ordinary characters only
IdStrings == {<<"n">>}

InitDoc ==
    /\ burst_size = RunnerBurst
    /\ sleep_time = RunnerSleep
    /\ request_times = <<>>
    /\ now = 0
    /\ calls = <<>>
    /\ papers = <<>>
    /\ InitFiles
    /\ InitProc
    /\ DlIdle
    /\ doc_pc = "start"
    /\ doc_paper \in [id : IdStrings, title : Strings]
    /\ doc_text \in Strings
    /\ doc_file = <<>>
    /\ doc_split = NotRead
    /\ LayIdle
    /\ FpIdle

NextDoc == DocRejected \/ DocWritten \/ DocRead

\* One record's output document: extracted, written, read back.
SpecDoc == InitDoc /\ [][NextDoc]_vars

\* ------------------------------------------- the fallback reconstruction

\* Coordinates are in tenths of a point.
Tolerance == 50     \* abs(word['doctop'] - current_y) > 5
Tops == {100, 102, 140, 150, 200}
Lefts == {0, 50}
Words == [doctop : Tops, x0 : Lefts]

\* word['text'] of the k-th word extract_words returns
TextOf == <<"Hello", "World", "Next", "Then", "Last">>
WordOf(t) == CHOOSE k \in 1..Len(TextOf) : TextOf[k] = t

Abs(x) == IF x < 0 THEN -x ELSE x

\* (w['doctop'], w['x0']) of word i is less than that of word j; sorted() is
\* stable, words with equal keys keep the order of extraction
Before(ws, i, j) ==
    \/ ws[i].doctop < ws[j].doctop
    \/ ws[i].doctop = ws[j].doctop /\ ws[i].x0 < ws[j].x0
    \/ ws[i].doctop = ws[j].doctop /\ ws[i].x0 = ws[j].x0 /\ i < j

\* sorted(words, key=lambda w: (w['doctop'], w['x0'])), as places in words
Sorted(ws) ==
    CHOOSE p \in [1..Len(ws) -> 1..Len(ws)] :
        \A a, b \in 1..Len(ws) : a < b => Before(ws, p[a], p[b])

RECURSIVE JoinWith(_, _)
\* sep.join(parts), for parts that are sequences of characters
JoinWith(sep, parts) ==
    IF parts = <<>> THEN <<>>
    ELSE IF Len(parts) = 1 THEN parts[1]
    ELSE parts[1] \o <<sep>> \o JoinWith(sep, Tail(parts))

\* ' '.join(current_line): each text is one character of the model
JoinLine(line) == JoinWith("sp", [k \in 1..Len(line) |-> <<line[k]>>])

\* (a new line starts also at the tolerance itself)
StartsLineAtTolerance(w, y) == Abs(w.doctop - y) >= Tolerance

\* abs(word['doctop'] - current_y) > 5
StartsLine(w, y) == Abs(w.doctop - y) > Tolerance

\* the word the loop is at, and the reference y after lines 98-99
LayWord == words[Sorted(words)[lay_i]]
LayY == IF current_y = NoY THEN LayWord.doctop ELSE current_y

frameLay ==
    <<limiterVars, fileVars, procVars, histVars, dlVars, docVars, fpVars>>

\* page.extract_text gave nothing: lines 89-95
LayCall ==
    /\ lay_pc = "start"
    /\ current_line' = <<>>
    /\ current_y' = NoY
    /\ text_content' = <<>>
    /\ lay_i' = 1
    /\ lay_pc' = "loop"
    /\ UNCHANGED <<words, lay_ret>>
    /\ UNCHANGED frameLay

\* lines 98-109, a word far from the reference: the line is closed, the word
\* opens the next one
LayBreak ==
    /\ lay_pc = "loop"
    /\ lay_i <= Len(words)
    /\ StartsLine(LayWord, LayY)
    /\ text_content' =
          IF current_line # <<>>
          THEN text_content \o <<JoinLine(current_line), <<"nl">>>>
          ELSE text_content
    /\ current_line' = <<TextOf[Sorted(words)[lay_i]]>>
    /\ current_y' = LayWord.doctop
    /\ lay_i' = lay_i + 1
    /\ UNCHANGED <<lay_pc, words, lay_ret>>
    /\ UNCHANGED frameLay

\* lines 98-109, a word near the reference: it joins the current line
LayAppend ==
    /\ lay_pc = "loop"
    /\ lay_i <= Len(words)
    /\ ~StartsLine(LayWord, LayY)
    /\ current_line' = Append(current_line, TextOf[Sorted(words)[lay_i]])
    /\ current_y' = LayY
    /\ lay_i' = lay_i + 1
    /\ UNCHANGED <<lay_pc, words, text_content, lay_ret>>
    /\ UNCHANGED frameLay

\* lines 111-116: the last line, and the return
LayReturn ==
    /\ lay_pc = "loop"
    /\ lay_i > Len(words)
    /\ text_content' =
          IF current_line # <<>>
          THEN text_content \o <<JoinLine(current_line), <<"nl">>>>
          ELSE text_content
    /\ lay_ret' = JoinWith("nl", text_content')
    /\ lay_pc' = "returned"
    /\ UNCHANGED <<words, lay_i, current_line, current_y>>
    /\ UNCHANGED frameLay

InitLay ==
    /\ burst_size = RunnerBurst
    /\ sleep_time = RunnerSleep
    /\ request_times = <<>>
    /\ now = 0
    /\ calls = <<>>
    /\ papers = <<>>
    /\ InitFiles
    /\ InitProc
    /\ DlIdle
    /\ DocIdle
    /\ lay_pc = "start"
    /\ words \in UNION {[1..n -> Words] : n \in 0..MaxWords}
    /\ lay_i = 0
    /\ current_line = <<>>
    /\ current_y = NoY
    /\ text_content = <<>>
    /\ lay_ret = <<>>
    /\ FpIdle

NextLay == LayCall \/ LayBreak \/ LayAppend \/ LayReturn

\* The fallback of extract_text_from_pdf on a document of one page.
SpecLay == InitLay /\ [][NextLay]_vars

\* ------------------------------------------------------------ filter_papers

\* A time is a day and a time of the day: DayLen times to a day, the first
\* of them midnight.
DayLen == 2
Days == {0, 1, 2}
Times == {d * DayLen + h : d \in Days, h \in 0..(DayLen - 1)}
DayOf(t) == t \div DayLen
\* datetime.strptime(date, '%Y-%m-%d'): midnight of the day
Midnight(d) == d * DayLen

NoV1 == -1          \* no version 'v1' among paper['versions']
BadDate == -2       \* parse_date returns None

\* A category is its characters up to the first dot, the dot, and the rest.
CategoryLists ==
    { << <<"cs", ".", "AI">> >>,
      << <<"math", ".", "CO">> >>,
      << <<"math", ".", "CO">>, <<"cs", ".", "LG">> >>,
      << <<"physics", ".", "cs">> >> }

\* the lines of input_file: a paper, or a line that is not JSON
Papers == [valid : {TRUE}, categories : CategoryLists,
           created : Times \cup {NoV1, BadDate}]
InvalidLine == [valid |-> FALSE, categories |-> <<>>, created |-> NoV1]
FpLines == Papers \cup {InvalidLine}
DateArgs == {NoDate, 1}

\* re.match(r'^cs\.', cat)
MatchesCs(cat) == Len(cat) >= 2 /\ cat[1] = "cs" /\ cat[2] = "."
\* any(re.match(r'^cs\.', cat) for cat in categories.split())
AnyCs(categories) == \E k \in 1..Len(categories) : MatchesCs(categories[k])

FpLine == in_f[fp_i]

frameFp ==
    <<limiterVars, fileVars, procVars, histVars, dlVars, docVars, layVars>>

\* every path of the loop body but the write: the line is left out
FpLeftOut ==
    /\ fp_i' = fp_i + 1
    /\ UNCHANGED <<fp_pc, in_f, start_date, end_date, out_f>>
    /\ UNCHANGED frameFp

\* lines 23-36: the dates are converted, the files opened
FpCall ==
    /\ fp_pc = "start"
    /\ fp_pc' = "loop"
    /\ fp_i' = 1
    /\ out_f' = <<>>
    /\ UNCHANGED <<in_f, start_date, end_date>>
    /\ UNCHANGED frameFp

\* json.loads raises, lines 76-77
FpInvalid ==
    /\ fp_pc = "loop" /\ fp_i <= Len(in_f)
    /\ ~FpLine.valid
    /\ FpLeftOut

\* lines 45-47
FpNotCs ==
    /\ fp_pc = "loop" /\ fp_i <= Len(in_f)
    /\ FpLine.valid
    /\ ~AnyCs(FpLine.categories)
    /\ FpLeftOut

\* lines 50-53
FpNoV1 ==
    /\ fp_pc = "loop" /\ fp_i <= Len(in_f)
    /\ FpLine.valid
    /\ AnyCs(FpLine.categories)
    /\ FpLine.created = NoV1
    /\ FpLeftOut

\* lines 55-57
FpBadDate ==
    /\ fp_pc = "loop" /\ fp_i <= Len(in_f)
    /\ FpLine.valid
    /\ AnyCs(FpLine.categories)
    /\ FpLine.created = BadDate
    /\ FpLeftOut

\* the line has come to the date checks of lines 60-63
FpDated ==
    /\ fp_pc = "loop" /\ fp_i <= Len(in_f)
    /\ FpLine.valid
    /\ AnyCs(FpLine.categories)
    /\ FpLine.created \in Times

\* if start_dt and created_date < start_dt
BeforeStart(t) == start_date # NoDate /\ t < Midnight(start_date)
\* if end_dt and created_date > end_dt
AfterEnd(t) == end_date # NoDate /\ t > Midnight(end_date)

\* lines 60-61
FpBeforeStart ==
    /\ FpDated
    /\ BeforeStart(FpLine.created)
    /\ FpLeftOut

\* lines 62-63
FpAfterEnd ==
    /\ FpDated
    /\ ~BeforeStart(FpLine.created)
    /\ AfterEnd(FpLine.created)
    /\ FpLeftOut

\* lines 66-74: the paper is written after those written before
FpWrite ==
    /\ FpDated
    /\ ~BeforeStart(FpLine.created)
    /\ ~AfterEnd(FpLine.created)
    /\ out_f' = Append(out_f, FpLine)
    /\ fp_i' = fp_i + 1
    /\ UNCHANGED <<fp_pc, in_f, start_date, end_date>>
    /\ UNCHANGED frameFp

\* lines 81-87
FpReturn ==
    /\ fp_pc = "loop" /\ fp_i > Len(in_f)
    /\ fp_pc' = "returned"
    /\ UNCHANGED <<in_f, start_date, end_date, fp_i, out_f>>
    /\ UNCHANGED frameFp

InitFp ==
    /\ burst_size = RunnerBurst
    /\ sleep_time = RunnerSleep
    /\ request_times = <<>>
    /\ now = 0
    /\ calls = <<>>
    /\ papers = <<>>
    /\ InitFiles
    /\ InitProc
    /\ DlIdle
    /\ DocIdle
    /\ LayIdle
    /\ fp_pc = "start"
    /\ in_f \in UNION {[1..n -> FpLines] : n \in 0..MaxLines}
    /\ start_date \in DateArgs
    /\ end_date \in DateArgs
    /\ fp_i = 0
    /\ out_f = <<>>

NextFp ==
    \/ FpCall
    \/ FpInvalid
    \/ FpNotCs
    \/ FpNoV1
    \/ FpBadDate
    \/ FpBeforeStart
    \/ FpAfterEnd
    \/ FpWrite
    \/ FpReturn

\* One call of filter_papers.
SpecFp == InitFp /\ [][NextFp]_vars

\* ================================================================ claims

Checkpointed == Range(logf)
Returned == pc = "done"
\* the records of this run handled so far whose outcome is in S
Handled(S) == {i \in 1..Len(outcomes) : outcomes[i] \in S}

\* C1 (as stated): at every point an identifier is in the checkpoint if and
\* only if its output document is fully written.
C1_CheckpointIffWritten ==
    \A i \in Ids : (i \in Checkpointed) <=> (txt[i] = "full")

\* C1 (amended): when every run had resume enabled and the input's
\* identifiers are unique, every identifier in the checkpoint has its output
\* document fully written, at every point of every run and after any
\* termination.
C1_CheckpointedIsWritten ==
    (allResume /\ UniqueIds(papers)) =>
        \A i \in Checkpointed : txt[i] = "full"

\* a resumed run, after a terminated one, is rewriting the output of a record
\* that is not in the checkpoint while another record is
C1_Witness ==
    /\ allResume /\ UniqueIds(papers)
    /\ runs = 2 /\ prev.how = "terminated"
    /\ Checkpointed = {1}
    /\ pc = "writing" /\ arxiv_id = 2 /\ txt[2] = "partial"

\* C2: the checkpoint only grows, also across a termination and the start of
\* the next run, and in a run with resume enabled no step fetches or opens an
\* output for an identifier that was in the checkpoint when the run started.
C2_CompletedWorkKept ==
    [][ /\ IsPrefix(logf, logf')
        /\ (resume /\ pc \in Running
              /\ (Len(calls') > Len(calls) \/ nwrites' > nwrites
                    \/ txt' # txt \/ pdf' \ pdf # {})
            => arxiv_id \notin Range(SubSeq(logf, 1, log0))) ]_vars

\* a run was terminated after a checkpoint append; the resumed run has
\* skipped that record and is fetching the next one
C2_Witness ==
    /\ runs = 2 /\ prev.how = "terminated" /\ resume
    /\ log0 = 1 /\ logf = <<1>>
    /\ outcomes = <<"skipped">>
    /\ pc = "downloading" /\ arxiv_id = 2

\* C3 (as stated): a run with resume enabled that follows a completed run
\* fetches nothing, writes nothing, fails nothing and counts as processed
\* the identifiers of the checkpoint.
C3_SecondRunIdle ==
    (prev.how = "done" /\ resume /\ pc \in Running \cup {"done", "raised"}) =>
        /\ Len(calls) = 0
        /\ nwrites = 0
        /\ failed = 0
        /\ Returned => processed = Cardinality(Checkpointed)

\* C3 (amended): a run with resume enabled that follows a completed run whose
\* failed count was 0 fetches nothing, writes nothing and fails nothing; when
\* it returns, its processed count is the number of input records, each of
\* them in the checkpoint.
C3_SecondRunIdleAfterCleanRun ==
    (prev.how = "done" /\ prev.failed = 0 /\ resume
       /\ pc \in Running \cup {"done", "raised"}) =>
        /\ Len(calls) = 0
        /\ nwrites = 0
        /\ failed = 0
        /\ pc # "raised"
        /\ Returned =>
             /\ processed = Len(papers)
             /\ Range(papers) \subseteq Checkpointed
             /\ UniqueIds(papers) => processed = Cardinality(Checkpointed)

\* the second run has returned after skipping both records
C3_Witness ==
    /\ runs = 2 /\ prev.how = "done" /\ prev.failed = 0 /\ resume
    /\ Returned /\ Len(papers) = 2 /\ outcomes = <<"skipped", "skipped">>

\* C4: of any burst_size + 1 consecutive calls of wait_if_needed, the last
\* completes at least sleep_time after the first completes (no window of
\* that duration holds more than burst_size completions).
C4_RateBound ==
    \A i \in 1..(Len(calls) - burst_size) :
        calls[i + burst_size][2] - calls[i][2] >= sleep_time

\* C5: process_papers never ends by an exception while records remain: a
\* record's failure is counted and the loop goes on.
C5_NeverAborted ==
    pc = "raised" => idx > Len(papers)

\* C6: when the loop moves on from a record that has an identifier, that
\* record's <id>.pdf does not exist; none exists when process_papers returns.
C6_ArtifactRemoved ==
    /\ (pc = "loop" /\ Len(outcomes) > 0) =>
            papers[Len(outcomes)] \notin pdf
    /\ Returned => pdf = {}

\* C7: after process_papers returns, no record whose fetch or extraction
\* failed in the run has an output document.
C7_NoOutputForFailed ==
    (Returned /\ UniqueIds(papers)) =>
        \A i \in Handled({"fetch_failed", "extract_failed"}) :
            txt[papers[i]] = "none"

\* the printed rate r is p / (p + f) in percent, rounded to two decimals
IsRateOf(r, p, f) ==
    LET d == r * (p + f) - 10000 * p IN 2 * d <= p + f /\ 2 * d > -(p + f)

\* C8 (as stated): after one run on an empty directory the checkpoint holds
\* exactly the identifiers whose fetch, extraction and output write
\* succeeded, failed counts the other records and the rate is
\* processed / (processed + failed).
C8_CheckpointIsWritten ==
    Returned =>
        LET good == Handled({"ok", "log_raised"}) IN
        /\ Checkpointed = {papers[i] : i \in good}
        /\ failed = Len(papers) - Cardinality(good)
        /\ IsRateOf(rate, processed, failed)

\* C8 (amended): after one run on an empty directory the checkpoint holds
\* exactly the identifiers whose fetch, extraction, output write and
\* checkpoint append all succeeded, failed counts the other records and the
\* rate printed is processed / (processed + failed); 4 records of which one
\* fails retrieval give 3 identifiers, failed = 1 and 75.00%.
C8_CheckpointIsAppended ==
    Returned =>
        LET good == Handled({"ok"}) IN
        /\ Checkpointed = {papers[i] : i \in good}
        /\ processed = Cardinality(good)
        /\ failed = Len(papers) - Cardinality(good)
        /\ IsRateOf(rate, processed, failed)
        /\ (Len(papers) = 4 /\ failed = 1) =>
              Cardinality(Checkpointed) = 3 /\ rate = 7500

\* 4 records, the second fails retrieval, the others are checkpointed
C8_Witness ==
    /\ Returned /\ Len(papers) = 4
    /\ outcomes = <<"ok", "fetch_failed", "ok", "ok">>
    /\ logf = <<1, 3, 4>> /\ failed = 1 /\ rate = 7500

\* C9: on a fresh limiter the first burst_size calls return when they are
\* made, and the call after them returns no earlier than sleep_time after
\* the first call was made.
C9_BurstThenWait ==
    /\ \A k \in 1..Len(calls) : k <= burst_size => calls[k][2] = calls[k][1]
    /\ Len(calls) > burst_size =>
          calls[burst_size + 1][2] >= calls[1][1] + sleep_time

\* burst_size + 1 calls made at the same instant, the last one blocked for
\* the whole window
C9_Witness ==
    /\ burst_size = 2 /\ sleep_time = 2 /\ Len(calls) = 3
    /\ \A k \in 1..3 : calls[k][1] = 0
    /\ calls[3][2] = 2

\* C10: once the record sequence is exhausted process_papers returns
\* normally, whatever the counters are.
C10_SummaryReturns ==
    (idx > Len(papers) /\ pc \in {"done", "raised"}) => Returned

\* C15: a checkpoint line is appended only for the record in hand, when its
\* output file is complete and closed and its artifact deleted, and before
\* the record is counted; the artifact is deleted only after the output is
\* complete; a processed record that was not skipped is counted only after
\* its line is in the checkpoint.
C15_StepOrder ==
    [][ /\ (logf' # logf) =>
              /\ logf' = Append(logf, arxiv_id)
              /\ txt[arxiv_id] = "full" /\ txt' = txt
              /\ arxiv_id \notin pdf
              /\ processed' = processed
        /\ (pc = "remove" /\ pdf' # pdf) => txt[arxiv_id] = "full"
        /\ (pc # "loop" /\ processed' = processed + 1) =>
              /\ Len(logf) > log0 /\ logf[Len(logf)] = arxiv_id
              /\ logf' = logf ]_vars

\* the record's line is in the checkpoint, its output complete, its artifact
\* gone, and it is not counted yet
C15_Witness ==
    /\ pc = "count" /\ processed = 0 /\ arxiv_id = 1
    /\ logf = <<1>> /\ txt[1] = "full" /\ 1 \notin pdf

\* the record in hand was in the checkpoint when a run with resume enabled
\* started
SkipCase ==
    /\ resume /\ pc = "loop" /\ idx <= Len(papers)
    /\ papers[idx] \in Range(SubSeq(logf, 1, log0))

\* C16: handling a record whose identifier was in the checkpoint when a run
\* with resume enabled started increments processed and moves to the next
\* record; the limiter, its call history, the files and the checkpoint, the
\* failed counter and the count of output writes stay as they are.
C16_SkipFrame ==
    [][ (SkipCase /\ pc' # "idle") =>
            /\ processed' = processed + 1
            /\ pc' = "loop" /\ idx' = idx + 1
            /\ UNCHANGED <<limiterVars, fileVars, failed, processed_ids,
                           nwrites>> ]_vars

\* a resumed run has skipped a checkpointed record whose artifact a fetch of
\* an earlier run had left behind
C16_Witness ==
    /\ runs = 2 /\ resume /\ log0 = 1 /\ logf = <<1>>
    /\ outcomes = <<"skipped">> /\ processed = 1 /\ failed = 0
    /\ Len(calls) = 0 /\ nwrites = 0

\* C17: every record the loop body has been entered for and left, on any
\* path, has incremented exactly one of processed and failed, once.
C17_OneCountPerRecord ==
    /\ pc = "loop" => processed + failed = idx - 1
    /\ (pc = "raised" /\ exc = "UnboundLocalError") => processed + failed = idx
    /\ Returned => processed + failed = Len(papers)

\* no identifier has two lines in the checkpoint
NoDuplicates(log) == \A i, j \in 1..Len(log) : log[i] = log[j] => i = j

\* C18: when every run had resume enabled and the input's identifiers are
\* unique, no identifier has two lines in the checkpoint, after any runs,
\* terminated or not, with any failures.
C18_CheckpointUnique ==
    (allResume /\ UniqueIds(papers)) => NoDuplicates(logf)

\* after a terminated run and a resumed one the checkpoint holds both
\* identifiers, one of them appended by each run
C18_Witness ==
    /\ allResume /\ UniqueIds(papers) /\ runs = 2
    /\ prev.how = "terminated" /\ log0 = 1 /\ logf = <<1, 2>>
    /\ Returned /\ failed = 0

\* C11: no exception leaves download_pdf; it returns True or False, and when
\* it returns True the file at output_path holds the whole response body.
C11_ReturnsNeverRaises ==
    /\ dl_pc # "raised"
    /\ dl_pc = "returned" =>
          /\ dl_ret \in {"True", "False"}
          /\ dl_ret = "True" => dl_dest = dl_body

\* a write to the file raised after the first of two chunks: False is
\* returned and the partly written file stays
C11_Witness ==
    /\ dl_pc = "returned" /\ dl_ret = "False" /\ dl_exc = "OSError"
    /\ dl_body = 2 /\ dl_dest = 1

\* C12: for a record that is checkpointed, reading its output document back
\* by splitting at the two marker texts gives the metadata the record had,
\* field for field, and a text that is not empty.
C12_MarkerSplitRoundTrip ==
    doc_pc = "read" =>
        /\ doc_split.ok
        /\ doc_split.paper = doc_paper
        /\ doc_split.body # <<>>

\* What the claims on the reconstructed text speak of.
RECURSIVE SplitAt(_, _)
\* the parts of s between the characters c
SplitAt(s, c) ==
    LET k == IndexFrom(s, c, 1) IN
    IF k = 0 THEN <<s>>
    ELSE <<SubSeq(s, 1, k - 1)>> \o SplitAt(SubSeq(s, k + 1, Len(s)), c)

\* the lines of a text, none for the empty text
LinesOf(t) == IF t = <<>> THEN <<>> ELSE SplitAt(t, "nl")
\* the words of a line, as places in words
WordsIn(line) ==
    LET ts == SelectSeq(line, LAMBDA t : t # "sp") IN
    [k \in 1..Len(ts) |-> WordOf(ts[k])]
\* the line is its words joined by single spaces
SingleSpaced(line) ==
    line = JoinLine([k \in 1..Len(WordsIn(line)) |-> TextOf[WordsIn(line)[k]]])

RECURSIVE Flat(_)
Flat(ls) == IF ls = <<>> THEN <<>> ELSE Head(ls) \o Flat(Tail(ls))

\* ls are the lines of the sorted words under tolerance Ty: every word of a
\* line is within Ty of the first word of the line, and the first word of
\* a line is more than Ty from the first word of the line before
Grouped(ls, Ty) ==
    /\ Flat(ls) = Sorted(words)
    /\ \A j \in 1..Len(ls) :
          /\ ls[j] # <<>>
          /\ \A k \in 1..Len(ls[j]) :
                Abs(words[ls[j][k]].doctop - words[ls[j][1]].doctop) <= Ty
    /\ \A j \in 2..Len(ls) :
          Abs(words[ls[j][1]].doctop - words[ls[j - 1][1]].doctop) > Ty

C19_LeftToRight ==
    lay_pc = "returned" =>
        \A l \in Range(LinesOf(lay_ret)) :
            \A a, b \in 1..Len(WordsIn(l)) :
                a < b => words[WordsIn(l)[a]].x0 <= words[WordsIn(l)[b]].x0

\* the record is one the claim says filter_papers retains: a category that
\* starts with cs., and a v1 creation time on a day from start_date to
\* end_date, both days included
Retained(r) ==
    /\ r.valid
    /\ AnyCs(r.categories)
    /\ r.created \in Times
    /\ start_date # NoDate => DayOf(r.created) >= start_date
    /\ end_date # NoDate => DayOf(r.created) <= end_date

\* C14: filter_papers writes exactly the records with a cs. category whose
\* v1 creation time is on a day from start_date to end_date, both included
\* (a date that is not given does not restrict), in the order of the input.
C14_RetainedInOrder ==
    fp_pc = "returned" => out_f = SelectSeq(in_f, Retained)

====
